---- MODULE Spec2Model ----
(***************************************************************************)
(* MQTTCommandTester (cup-simulator/unittests/test_mqtt_command.py): the   *)
(* session object that owns a paho MQTT client, its connect / send_command *)
(* / disconnect operations, the callbacks the client's background loop     *)
(* delivers, and main()'s run over it.                                     *)
(***************************************************************************)
EXTENDS Integers, Sequences, FiniteSets, TLC

\* ---------------------------------------------------------------- bounds
\* Number of Broker clients a session may create (one per connect() call
\* that gets past URL parsing).
MaxClients == 2
\* CONNACK return codes range over 0..MaxRc (0 = accepted).
MaxRc == 2
\* Primitives per config, movements per primitive, units per session and
\* fields per wire that the codec is tried on.
MaxPrimitives == 2
MaxMovements == 2
MaxUnits == 2
MaxFields == 2

\* ------------------------------------------------------ program constants
\* connect(): timeout = 5 (seconds)
timeout == 5
COMMAND_START == 1
COMMAND_TASK == 3
COMMAND_RESET == 1
COMMAND_PAUSE == 2
COMMAND_RESUME == 3
COMMAND_SET_INTENSITY == 4

Clients == 1..MaxClients
ConnackCodes == 0..MaxRc

\* config["mqtt"]["qos"]: the default of _load_config.
QosLevels == {1}

\* int(time.time() * 1000) at the moment a command is created.
Timestamps == {1000, 2000}

\* config["device"]["token"]: the default of _load_config and an override.
Tokens == {"hw2020515", "cup42"}

\* config["mqtt"]["broker_url"], as sequences of characters: the default
\* scheme and one that connect() does not support.
TcpUrl == <<"t","c","p",":","/","/","h",":","1">>
HttpUrl == <<"h","t","t","p",":","/","/","h">>
BrokerUrls == {TcpUrl, HttpUrl}

\* str.startswith
startswith(s, prefix) ==
    /\ Len(s) >= Len(prefix)
    /\ SubSeq(s, 1, Len(prefix)) = prefix

\* A slip in the URL parse: a URL of any other scheme is taken as tcp.
UrlSchemeDefaultsToTcp(broker_url) ==
    IF startswith(broker_url, <<"m","q","t","t",":","/","/">>) THEN "mqtt"
    ELSE IF startswith(broker_url, <<"m","q","t","t","s",":","/","/">>) THEN "mqtts"
    ELSE "tcp"

\* connect(): the scheme branch of the URL parse; "unsupported" is the
\* else branch that returns False.
UrlScheme(broker_url) ==
    IF startswith(broker_url, <<"t","c","p",":","/","/">>) THEN "tcp"
    ELSE IF startswith(broker_url, <<"m","q","t","t",":","/","/">>) THEN "mqtt"
    ELSE IF startswith(broker_url, <<"m","q","t","t","s",":","/","/">>) THEN "mqtts"
    ELSE "unsupported"

\* A slip in the topic literal: the separator after "command" is missing.
TopicNoSeparator(device_token) == "device/command" \o device_token

\* send_command(): topic = f"device/command/{device_token}"
Topic(device_token) == "device/command/" \o device_token

\* ------------------------------------------------------- protobuf messages
\* Floats are written in tenths (0.2 is 2, 1.0 is 10, 1.5 is 15): the codec
\* carries them unrounded, so only their identity matters.
\* One element of input_data['body']['primitives'][i]['movements'].
Movement(direction, distance, duration, rotation, rotation_direction) ==
    [direction |-> direction, distance |-> distance, duration |-> duration,
     rotation |-> rotation, rotation_direction |-> rotation_direction]

\* One element of input_data['body']['primitives'].
Primitive(primitive_id, movements) ==
    [primitive_id |-> primitive_id, movements |-> movements]

\* One element of input_data['body'] of the session.
SessionUnit(primitive_id, iteration, intensity) ==
    [primitive_id |-> primitive_id, iteration |-> iteration, intensity |-> intensity]

\* device_pb2.DeviceMotionMessage(): the oneof body with nothing set.  A
\* set member is a one-element sequence holding the sub-message.
DeviceMotionMessage == [config |-> <<>>, session |-> <<>>, control |-> <<>>]

\* Writing into message.config / message.session / message.control makes it
\* the set member of the oneof and clears the others.
SetBody(name, submessage) == [DeviceMotionMessage EXCEPT ![name] = <<submessage>>]

\* message.HasField(name)
HasField(message, name) == message[name] # <<>>

\* message.WhichOneof('body'); "none" is Python's None.
WhichOneof(message) ==
    IF HasField(message, "config") THEN "config"
    ELSE IF HasField(message, "session") THEN "session"
    ELSE IF HasField(message, "control") THEN "control"
    ELSE "none"

\* ------------------------------------------------------------- wire format
\* One field on the wire: its number, its wire type and its value (the
\* nested fields for a sub-message, the blob for bytes).
Field(f, t, v) == [f |-> f, t |-> t, v |-> v]

\* The fields of wire w with number f, in wire order.
FieldsOf(w, f) == SelectSeq(w, LAMBDA x : x.f = f)

\* A scalar field of a decoded message: the last occurrence on the wire, else
\* the default.
Scalar(w, f, default) ==
    IF FieldsOf(w, f) = <<>> THEN default ELSE FieldsOf(w, f)[Len(FieldsOf(w, f))].v

EncodeMovement(m) ==
    << Field(1, "varint", m.direction),
       Field(2, "double", m.distance),
       Field(3, "double", m.duration),
       Field(4, "double", m.rotation),
       Field(5, "varint", m.rotation_direction) >>

DecodeMovement(w) ==
    Movement(Scalar(w, 1, 0), Scalar(w, 2, 0), Scalar(w, 3, 0), Scalar(w, 4, 0),
             Scalar(w, 5, 0))

EncodePrimitive(p) ==
    <<Field(1, "string", p.primitive_id)>> \o
    [i \in 1..Len(p.movements) |-> Field(2, "message", EncodeMovement(p.movements[i]))]

DecodePrimitive(w) ==
    Primitive(Scalar(w, 1, ""),
              [i \in 1..Len(FieldsOf(w, 2)) |-> DecodeMovement(FieldsOf(w, 2)[i].v)])

EncodeConfig(c) ==
    [i \in 1..Len(c.primitives) |-> Field(1, "message", EncodePrimitive(c.primitives[i]))]

DecodeConfig(w) ==
    [primitives |-> [i \in 1..Len(FieldsOf(w, 1)) |-> DecodePrimitive(FieldsOf(w, 1)[i].v)]]

EncodeUnit(u) ==
    << Field(1, "string", u.primitive_id),
       Field(2, "varint", u.iteration),
       Field(3, "double", u.intensity) >>

DecodeUnit(w) == SessionUnit(Scalar(w, 1, ""), Scalar(w, 2, 0), Scalar(w, 3, 0))

EncodeSession(s) ==
    [i \in 1..Len(s.units) |-> Field(1, "message", EncodeUnit(s.units[i]))]

DecodeSession(w) ==
    [units |-> [i \in 1..Len(FieldsOf(w, 1)) |-> DecodeUnit(FieldsOf(w, 1)[i].v)]]

\* ControlMessage: command, and the optional intensity and duration, which
\* are on the wire exactly when they are set.
ControlMessage(command, has_intensity, intensity, has_duration, duration) ==
    [command |-> command,
     has_intensity |-> has_intensity, intensity |-> intensity,
     has_duration |-> has_duration, duration |-> duration]

EncodeControl(c) ==
    <<Field(1, "varint", c.command)>> \o
    (IF c.has_intensity THEN <<Field(2, "double", c.intensity)>> ELSE <<>>) \o
    (IF c.has_duration THEN <<Field(3, "double", c.duration)>> ELSE <<>>)

DecodeControl(w) ==
    ControlMessage(Scalar(w, 1, 0),
                   FieldsOf(w, 2) # <<>>, Scalar(w, 2, 0),
                   FieldsOf(w, 3) # <<>>, Scalar(w, 3, 0))

\* The field number of each member of the oneof body.
BodyTag(name) == CASE name = "config" -> 1 [] name = "session" -> 2 [] name = "control" -> 3

EncodeBody(name, m) ==
    CASE name = "config" -> EncodeConfig(m)
      [] name = "session" -> EncodeSession(m)
      [] name = "control" -> EncodeControl(m)

\* message.SerializeToString() of a DeviceMotionMessage: the set member of
\* the oneof, as one field whose number tells the variant; nothing when no
\* member is set.
SerializeToString(message) ==
    IF WhichOneof(message) = "none" THEN <<>>
    ELSE <<Field(BodyTag(WhichOneof(message)), "message",
                 EncodeBody(WhichOneof(message), message[WhichOneof(message)][1]))>>

\* The wire cannot be parsed: a field number 0, or a member of the oneof that
\* is not a sub-message.
Malformed(w) ==
    \E i \in 1..Len(w) : w[i].f = 0 \/ (w[i].f \in 1..3 /\ w[i].t # "message")

\* The fields of the wire that are members of the oneof.
BodyFields(w) == SelectSeq(w, LAMBDA x : x.f \in 1..3)

\* message.ParseFromString(data) into a fresh DeviceMotionMessage, for a wire
\* that is not Malformed (for one that is, the parse raises): the last member
\* of the oneof on the wire is the set one, fields with other numbers are
\* skipped.
ParseFromString(w) ==
    IF BodyFields(w) = <<>> THEN DeviceMotionMessage
    ELSE LET last == BodyFields(w)[Len(BodyFields(w))]
         IN CASE last.f = 1 -> SetBody("config", DecodeConfig(last.v))
              [] last.f = 2 -> SetBody("session", DecodeSession(last.v))
              [] last.f = 3 -> SetBody("control", DecodeControl(last.v))

\* ------------------------------------------------------- message builders
\* generate_config_message(): input_data['body']['primitives'].
ConfigInputData ==
    << Primitive("primitive_1",
           << Movement(0, 2, 3, 10, 1), Movement(0, 3, 3, 10, 1),
              Movement(0, 3, 3, 10, 1), Movement(0, 2, 3, 10, 1),
              Movement(1, 2, 3, 10, 1), Movement(1, 3, 3, 10, 1),
              Movement(1, 3, 3, 10, 1), Movement(1, 2, 3, 10, 1) >>),
       Primitive("primitive_2",
           << Movement(0, 1, 3, 10, 1), Movement(0, 4, 3, 10, 1),
              Movement(0, 3, 3, 10, 1), Movement(0, 2, 3, 10, 1),
              Movement(1, 2, 3, 10, 1), Movement(1, 3, 3, 10, 1),
              Movement(1, 4, 3, 10, 1), Movement(1, 1, 3, 10, 1) >>) >>

\* generate_session_message(): input_data['body'].
SessionInputData ==
    [i \in 1..10 |->
        SessionUnit(IF i % 2 = 1 THEN "primitive_1" ELSE "primitive_2", 15, 10)]

\* A slip in the loop of generate_config_message(): rotation_direction is
\* not copied.
BuildConfigMessageNoRotationDirection(primitives) ==
    SetBody("config",
        [primitives |->
            [i \in 1..Len(primitives) |->
                Primitive(primitives[i].primitive_id,
                    [j \in 1..Len(primitives[i].movements) |->
                        LET movement_data == primitives[i].movements[j]
                        IN Movement(movement_data.direction,
                                    movement_data.distance,
                                    movement_data.duration,
                                    movement_data.rotation,
                                    0)])]])

\* The loop of generate_config_message() over the primitives of its
\* input_data (one or more): primitives.add(), the id, then movements.add()
\* and the five fields of each movement, in the order of the input.
BuildConfigMessage(primitives) ==
    SetBody("config",
        [primitives |->
            [i \in 1..Len(primitives) |->
                Primitive(primitives[i].primitive_id,
                    [j \in 1..Len(primitives[i].movements) |->
                        LET movement_data == primitives[i].movements[j]
                        IN Movement(movement_data.direction,
                                    movement_data.distance,
                                    movement_data.duration,
                                    movement_data.rotation,
                                    movement_data.rotation_direction)])]])

\* A slip in the loop of generate_session_message(): each unit is put in
\* front of the ones before it.
BuildSessionMessageReversed(units) ==
    SetBody("session",
        [units |->
            [i \in 1..Len(units) |->
                SessionUnit(units[Len(units) + 1 - i].primitive_id,
                            units[Len(units) + 1 - i].iteration,
                            units[Len(units) + 1 - i].intensity)]])

\* The loop of generate_session_message() over the units of its input_data
\* (one or more): units.add() and the three fields of each unit.
BuildSessionMessage(units) ==
    SetBody("session",
        [units |->
            [i \in 1..Len(units) |->
                SessionUnit(units[i].primitive_id, units[i].iteration,
                            units[i].intensity)]])

\* A slip in generate_control_message(): the command is written into
\* message.session.
BuildControlMessageInSession(command) ==
    SetBody("session", [units |-> <<SessionUnit("", command, 0)>>])

\* generate_control_message(): control_message.command = command, and for
\* command 4 intensity = 1.5 and duration = 10.0.
BuildControlMessage(command) ==
    SetBody("control",
        IF command = 4
        THEN ControlMessage(command, TRUE, 15, TRUE, 100)
        ELSE ControlMessage(command, FALSE, 0, FALSE, 0))

generate_config_message == SerializeToString(BuildConfigMessage(ConfigInputData))
generate_session_message == SerializeToString(BuildSessionMessage(SessionInputData))
generate_control_message(command) == SerializeToString(BuildControlMessage(command))

VARIABLES
    config,       \* self.config: [broker_url, token, qos]
    client,       \* self.client: 0 is None, else the Broker client's index
    connected,    \* self.connected
    pc,           \* where the caller's thread is: "idle", inside connect()
                  \* ("waiting", "check") or inside test_full_workflow ("full_sleep")
    elapsed,      \* whole seconds of time.time() - start_time inside connect()
    net,          \* per client: "none" (not created), "new" (created, no
                  \* connection), "sent" (CONNECT sent, CONNACK awaited), "up",
                  \* "down" (refused or lost), "closed" (client.disconnect())
    loop,         \* per client: its background loop thread is running
    acked,        \* a CONNACK with rc = 0 was delivered for self.client while
                  \* the connect() call that created it was waiting
    everAcked,    \* a CONNACK with rc = 0 was delivered to some client
    rejected,     \* non-zero CONNACK rc delivered for self.client while the
                  \* connect() call that created it was waiting (0: none)
    call,         \* the latest call of the caller: [op, result, n, publish],
                  \* n counts consecutive disconnect() calls, publish lists the
                  \* client.publish() invocations the call made
    mainpc,       \* main(): "api" when the object is driven directly
    exitStatus,   \* main()'s return value (-1: not returned)
    codec         \* the latest use of the message codec: [op, input, wire, output]

vars == <<config, client, connected, pc, elapsed, net, loop, acked, everAcked, rejected, call, mainpc, exitStatus, codec>>

mainVars == <<mainpc, exitStatus>>

sessionVars == <<config, client, connected, pc, elapsed, net, loop, acked, everAcked, rejected, call>>

\* ------------------------------------------------------- the DeviceCommand
\* command_pb2.DeviceCommand() with its four fields.
DeviceCommand(device_token, command_type, command_data, timestamp) ==
    [device_token |-> device_token,
     command_type |-> command_type,
     command_data |-> command_data,
     timestamp    |-> timestamp]

\* command.SerializeToString() of a DeviceCommand: the four fields, the
\* command data as an uninterpreted blob.
SerializeCommand(command) ==
    << Field(1, "string", command.device_token),
       Field(2, "varint", command.command_type),
       Field(3, "bytes", command.command_data),
       Field(4, "varint", command.timestamp) >>

\* The wire of a DeviceCommand cannot be decoded: a field number 0, or one of
\* the four fields is missing.
CommandMalformed(w) ==
    \/ \E i \in 1..Len(w) : w[i].f = 0
    \/ \E f \in 1..4 : FieldsOf(w, f) = <<>>

\* Decoding the wire of a DeviceCommand that is not CommandMalformed.
ParseCommand(w) ==
    DeviceCommand(Scalar(w, 1, ""), Scalar(w, 2, 0), Scalar(w, 3, <<>>), Scalar(w, 4, 0))

\* A slip in create_device_command(): the token is the default one, not the
\* one of the configuration.
create_device_command_default_token(command_type, command_data, timestamp) ==
    SerializeCommand(DeviceCommand("hw2020515", command_type, command_data, timestamp))

\* A slip in create_device_command(): the data is attached to TASK commands
\* only.
create_device_command_task_data_only(command_type, command_data, timestamp) ==
    SerializeCommand(DeviceCommand(config.token, command_type,
                                   IF command_type = COMMAND_TASK THEN command_data ELSE <<>>,
                                   timestamp))

\* create_device_command(): the token of the config, the given type and data
\* and the clock's timestamp, serialized.
create_device_command(command_type, command_data, timestamp) ==
    SerializeCommand(DeviceCommand(config.token, command_type, command_data, timestamp))

\* ------------------------------------------------------------ the Broker
\* client.publish(): result.rc.  A client with an established connection
\* queues the message or refuses it (queue full); any other client reports
\* that there is no connection.
PublishRc(c) ==
    IF net[c] = "up" THEN {"MQTT_ERR_SUCCESS", "MQTT_ERR_QUEUE_SIZE"}
    ELSE {"MQTT_ERR_NO_CONN"}

\* mqtt.Client(...): the next unused client.
NewClient ==
    CHOOSE c \in Clients : net[c] = "none" /\ \A d \in Clients : d < c => net[d] # "none"

Call(op, result, n, publish) ==
    [op |-> op, result |-> result, n |-> n, publish |-> publish]

Codec(op, input, wire, output) ==
    [op |-> op, input |-> input, wire |-> wire, output |-> output]

\* __init__: self.client = None, self.connected = False; nothing has run.
InitFields ==
    /\ client = 0
    /\ connected = FALSE
    /\ pc = "idle"
    /\ elapsed = 0
    /\ net = [c \in Clients |-> "none"]
    /\ loop = [c \in Clients |-> FALSE]
    /\ acked = FALSE
    /\ everAcked = FALSE
    /\ rejected = 0
    /\ call = Call("none", "none", 0, <<>>)
    /\ codec = Codec("none", <<>>, <<>>, <<>>)

InitSession ==
    /\ config \in [broker_url : BrokerUrls, token : Tokens, qos : QosLevels]
    /\ InitFields

Init ==
    /\ InitSession
    /\ mainpc = "api"
    /\ exitStatus = -1

\* -------------------------------------------------------------- connect()
\* The else branch of the URL parse: print the error, return False.
connect_unsupported ==
    /\ pc = "idle"
    /\ UrlScheme(config.broker_url) = "unsupported"
    /\ call' = Call("connect", "unsupported", 0, <<>>)
    /\ UNCHANGED <<config, client, connected, pc, elapsed, net, loop, acked, everAcked, rejected>>

\* A new client is created and stored, the callbacks are set, and
\* client.connect(host, port, keepalive) raises: return False.
connect_raises ==
    /\ pc = "idle"
    /\ UrlScheme(config.broker_url) # "unsupported"
    /\ \E c \in Clients : net[c] = "none"
    /\ client' = NewClient
    /\ net' = [net EXCEPT ![NewClient] = "new"]
    /\ acked' = FALSE
    /\ rejected' = 0
    /\ call' = Call("connect", "error", 0, <<>>)
    /\ UNCHANGED <<config, connected, pc, elapsed, loop, everAcked>>

\* A new client is created and stored, client.connect() returns (CONNECT is
\* on the wire), loop_start() starts the background loop and the wait begins.
connect_start ==
    /\ pc = "idle"
    /\ UrlScheme(config.broker_url) # "unsupported"
    /\ \E c \in Clients : net[c] = "none"
    /\ client' = NewClient
    /\ net' = [net EXCEPT ![NewClient] = "sent"]
    /\ loop' = [loop EXCEPT ![NewClient] = TRUE]
    /\ pc' = "waiting"
    /\ elapsed' = 0
    /\ acked' = FALSE
    /\ rejected' = 0
    /\ call' = Call("connect", "pending", 0, <<>>)
    /\ UNCHANGED <<config, connected, everAcked>>

\* A slip in the loop condition: <= instead of <.
KeepWaitingInclusive(conn, el) == ~conn /\ el <= timeout

\* while not self.connected and (time.time() - start_time) < timeout
KeepWaiting(conn, el) == ~conn /\ el < timeout

\* One pass of the wait loop: time.sleep(0.1), in which the whole-second
\* reading of the clock stays or advances by one.
connect_poll ==
    /\ pc = "waiting"
    /\ KeepWaiting(connected, elapsed)
    /\ \E d \in {0, 1} : elapsed' = elapsed + d
    /\ UNCHANGED <<config, client, connected, pc, net, loop, acked, everAcked, rejected, call>>

\* The loop condition is read false: the loop is left.
connect_exit ==
    /\ pc = "waiting"
    /\ ~KeepWaiting(connected, elapsed)
    /\ pc' = "check"
    /\ UNCHANGED <<config, client, connected, elapsed, net, loop, acked, everAcked, rejected, call>>

\* if self.connected: return True, else "Connection timeout", return False
ConnectOutcome(conn) == IF conn THEN "ok" ELSE "timeout"

connect_return ==
    /\ pc = "check"
    /\ call' = Call("connect", ConnectOutcome(connected), 0, <<>>)
    /\ pc' = "idle"
    /\ UNCHANGED <<config, client, connected, elapsed, net, loop, acked, everAcked, rejected>>

\* --------------------------------------- callbacks of the background loop
\* The callback concerns the connect() call in progress.
ForThisConnect(c) == c = client /\ pc \in {"waiting", "check"}

\* _on_connect(client, userdata, flags, rc), delivered by the loop of the
\* client whose CONNACK arrived: rc = 0 sets the flag, any other rc is
\* printed and the Broker closes the connection.
on_connect(c, rc) ==
    /\ loop[c]
    /\ net[c] = "sent"
    /\ connected' = (IF rc = 0 THEN TRUE ELSE connected)
    /\ net' = [net EXCEPT ![c] = IF rc = 0 THEN "up" ELSE "down"]
    /\ acked' = (IF rc = 0 /\ ForThisConnect(c) THEN TRUE ELSE acked)
    /\ everAcked' = (IF rc = 0 THEN TRUE ELSE everAcked)
    /\ rejected' = (IF rc # 0 /\ ForThisConnect(c) THEN rc ELSE rejected)
    /\ UNCHANGED <<config, client, pc, elapsed, loop, call>>

\* _on_disconnect(client, userdata, rc), delivered by the loop of a client
\* whose established connection was lost.
on_disconnect(c) ==
    /\ loop[c]
    /\ net[c] = "up"
    /\ connected' = FALSE
    /\ net' = [net EXCEPT ![c] = "down"]
    /\ UNCHANGED <<config, client, pc, elapsed, loop, acked,
                   everAcked, rejected, call>>

\* The running background loop of a client without a connection connects
\* again and sends CONNECT.
loop_reconnect(c) ==
    /\ loop[c]
    /\ net[c] = "down"
    /\ net' = [net EXCEPT ![c] = "sent"]
    /\ UNCHANGED <<config, client, connected, pc, elapsed, loop, acked, everAcked, rejected, call>>

\* _on_publish(client, userdata, mid), delivered by the loop of the client
\* that queued the latest message: prints, changes nothing of the session.
on_publish(c) ==
    /\ loop[c]
    /\ net[c] = "up"
    /\ c = client
    /\ call.op = "send_command"
    /\ call.result = "queued"
    /\ UNCHANGED <<config, client, connected, pc, elapsed, net, loop, acked,
                   everAcked, rejected, call>>

\* ----------------------------------------------------------- disconnect()
\* The fields disconnect() reads and writes.
Session == [client |-> client, connected |-> connected, net |-> net, loop |-> loop]

\* A slip in disconnect(): the flag is not cleared.
disconnected_keeps_flag(s) ==
    IF s.client # 0
    THEN [s EXCEPT !.loop = [s.loop EXCEPT ![s.client] = FALSE],
                   !.net = [s.net EXCEPT ![s.client] = "closed"]]
    ELSE s

\* if self.client: loop_stop(); client.disconnect(); self.connected = False
disconnected(s) ==
    IF s.client # 0
    THEN [s EXCEPT !.loop = [s.loop EXCEPT ![s.client] = FALSE],
                   !.net = [s.net EXCEPT ![s.client] = "closed"],
                   !.connected = FALSE]
    ELSE s

disconnect ==
    /\ pc = "idle"
    /\ client' = disconnected(Session).client
    /\ connected' = disconnected(Session).connected
    /\ net' = disconnected(Session).net
    /\ loop' = disconnected(Session).loop
    /\ call' = Call("disconnect", "done",
                    IF call.op = "disconnect" THEN 2 ELSE 1, <<>>)
    /\ UNCHANGED <<config, pc, elapsed, acked, everAcked,
                   rejected>>

\* --------------------------------------------------------- send_command()
\* client.publish(topic, device_command_data, qos=qos), as the Broker saw it.
Publish(c, topic, payload, qos, rc) ==
    [client |-> c, topic |-> topic, payload |-> payload, qos |-> qos, rc |-> rc]

\* A slip in send_command(): a refused publish is tried once more.
PublishesRetry(p) == IF p.rc = "MQTT_ERR_SUCCESS" THEN <<p>> ELSE <<p, p>>

\* The client.publish() invocations of one send_command() call.
Publishes(p) == <<p>>

\* A slip in send_command(): result.rc is not looked at.
SendOutcomeIgnoresRc(rc) == "queued"

\* if result.rc == mqtt.MQTT_ERR_SUCCESS: return True, else return False
SendOutcome(rc) == IF rc = "MQTT_ERR_SUCCESS" THEN "queued" ELSE "failed"

\* A slip in send_command(): the guard tests self.client, not self.connected.
send_command_guards_client(command_type, motion_message) ==
    IF client = 0
    THEN call' = Call("send_command", "not_connected", 0, <<>>)
    ELSE \E ts \in Timestamps, rc \in PublishRc(client) :
           LET p == Publish(client, Topic(config.token),
                            create_device_command(command_type, motion_message, ts),
                            config.qos, rc)
           IN call' = Call("send_command", SendOutcome(rc), 0, Publishes(p))

\* if not self.connected: return False.  Otherwise build the DeviceCommand,
\* publish it on the topic of the device and return whether the Broker
\* queued it.
send_command(command_type, motion_message) ==
    IF ~connected
    THEN call' = Call("send_command", "not_connected", 0, <<>>)
    ELSE \E ts \in Timestamps, rc \in PublishRc(client) :
           LET p == Publish(client, Topic(config.token),
                            create_device_command(command_type, motion_message, ts),
                            config.qos, rc)
           IN call' = Call("send_command", SendOutcome(rc), 0, Publishes(p))

\* test_config / test_session / test_control_*: return self.send_command(...)
test_single(command_type, motion_message) ==
    /\ pc = "idle"
    /\ send_command(command_type, motion_message)
    /\ UNCHANGED <<config, client, connected, pc, elapsed, net, loop, acked,
                   everAcked, rejected>>

test_config == test_single(COMMAND_TASK, generate_config_message)

\* A slip in test_session: the session is sent as a TASK.
test_session_as_task == test_single(COMMAND_TASK, generate_session_message)

test_session == test_single(COMMAND_START, generate_session_message)

test_control_reset == test_single(COMMAND_TASK, generate_control_message(COMMAND_RESET))
test_control_pause == test_single(COMMAND_TASK, generate_control_message(COMMAND_PAUSE))
test_control_resume == test_single(COMMAND_TASK, generate_control_message(COMMAND_RESUME))
test_control_set_intensity ==
    test_single(COMMAND_TASK, generate_control_message(COMMAND_SET_INTENSITY))

\* A slip in test_full_workflow: the result of the first send is not tested.
test_full_workflow_ignores_failure ==
    /\ pc = "idle"
    /\ send_command(COMMAND_TASK, generate_config_message)
    /\ pc' = "full_sleep"
    /\ UNCHANGED <<config, client, connected, elapsed, net, loop, acked,
                   everAcked, rejected>>

\* test_full_workflow, step 1: send the config; on failure return False,
\* else sleep one second.
test_full_workflow ==
    /\ pc = "idle"
    /\ send_command(COMMAND_TASK, generate_config_message)
    /\ pc' = IF call'.result = "queued" THEN "full_sleep" ELSE "idle"
    /\ UNCHANGED <<config, client, connected, elapsed, net, loop, acked,
                   everAcked, rejected>>

\* test_full_workflow, step 2: send the session and return its result.
test_full_session ==
    /\ pc = "full_sleep"
    /\ send_command(COMMAND_START, generate_session_message)
    /\ pc' = "idle"
    /\ UNCHANGED <<config, client, connected, elapsed, net, loop, acked,
                   everAcked, rejected>>

\* ------------------------------------------------ the session, driven freely
Callbacks ==
    \/ \E c \in Clients, rc \in ConnackCodes : on_connect(c, rc)
    \/ \E c \in Clients : on_disconnect(c)
    \/ \E c \in Clients : loop_reconnect(c)
    \/ \E c \in Clients : on_publish(c)

ConnectThread == connect_poll \/ connect_exit \/ connect_return

Tests ==
    \/ test_config
    \/ test_session
    \/ test_control_reset
    \/ test_control_pause
    \/ test_control_resume
    \/ test_control_set_intensity
    \/ test_full_workflow

\* A step of the session that is no step of main().
Free(A) == A /\ UNCHANGED <<mainVars, codec>>

Next ==
    \/ Free(connect_unsupported)
    \/ Free(connect_raises)
    \/ Free(connect_start)
    \/ Free(connect_poll)
    \/ Free(connect_exit)
    \/ Free(connect_return)
    \/ Free(disconnect)
    \/ Free(test_config)
    \/ Free(test_session)
    \/ Free(test_control_reset)
    \/ Free(test_control_pause)
    \/ Free(test_control_resume)
    \/ Free(test_control_set_intensity)
    \/ Free(test_full_workflow)
    \/ Free(test_full_session)
    \/ \E c \in Clients, rc \in ConnackCodes : Free(on_connect(c, rc))
    \/ \E c \in Clients : Free(on_disconnect(c))
    \/ \E c \in Clients : Free(loop_reconnect(c))
    \/ \E c \in Clients : Free(on_publish(c))

Spec == Init /\ [][Next]_vars

\* The caller's thread keeps running while it is inside connect().
FairSpec == Spec /\ WF_vars(Free(ConnectThread))

\* --------------------------------------------------------------- main()
\* main() builds the tester (the config comes from the file, --broker and
\* --token), connects, runs one scenario and disconnects.
\* config["device"]["token"] as the config file gives it: the default, or a
\* file whose token is the empty string.
FileTokens == {"hw2020515", ""}

\* args.token: <<>> is None (no --token), else the string given.
ArgTokens == {<<>>, <<"">>, <<"cup42">>}

\* if args.token: tester.config["device"]["token"] = args.token
OverrideToken(file_token, arg_token) ==
    IF arg_token # <<>> /\ arg_token[1] # "" THEN arg_token[1] ELSE file_token

MainInit ==
    /\ \E broker_url \in BrokerUrls, file_token \in FileTokens, arg_token \in ArgTokens,
          qos \in QosLevels :
          config = [broker_url |-> broker_url,
                    token |-> OverrideToken(file_token, arg_token),
                    qos |-> qos]
    /\ InitFields
    /\ mainpc = "start"
    /\ exitStatus = -1

\* if not tester.connect(): the call.
main_connect ==
    /\ mainpc = "start"
    /\ (connect_unsupported \/ connect_raises \/ connect_start)
    /\ mainpc' = "connect"
    /\ UNCHANGED <<exitStatus, codec>>

\* tester.connect() in progress.
main_connecting ==
    /\ mainpc = "connect"
    /\ ConnectThread
    /\ UNCHANGED <<mainVars, codec>>

\* connect() returned False: print, return 1 (before the try block).
main_connect_failed ==
    /\ mainpc = "connect"
    /\ pc = "idle"
    /\ call.result # "ok"
    /\ mainpc' = "done"
    /\ exitStatus' = 1
    /\ UNCHANGED <<sessionVars, codec>>

\* connect() returned True: the scenario of --test or of the menu choice 1-7.
main_test ==
    /\ mainpc = "connect"
    /\ pc = "idle"
    /\ call.result = "ok"
    /\ Tests
    /\ mainpc' = "test"
    /\ UNCHANGED <<exitStatus, codec>>

\* The second step of the full workflow.
main_test_full_session ==
    /\ mainpc = "test"
    /\ test_full_session
    /\ UNCHANGED <<mainVars, codec>>

\* Menu choice "0": success = True; any other input: success = False.
main_no_test(choice) ==
    /\ mainpc = "connect"
    /\ pc = "idle"
    /\ call.result = "ok"
    /\ mainpc' = choice
    /\ UNCHANGED <<sessionVars, exitStatus, codec>>

\* A slip in main(): an invalid menu choice counts as success, as Exit does.
SuccessUnlessTestFailed ==
    IF mainpc = "test" THEN call.result = "queued" ELSE TRUE

\* success, as main() holds it when the scenario is over.
Success ==
    IF mainpc = "test" THEN call.result = "queued" ELSE mainpc = "exit_choice"

\* time.sleep(1); return 0 if success else 1; finally: tester.disconnect()
main_finish ==
    /\ mainpc \in {"test", "exit_choice", "invalid_choice"}
    /\ disconnect
    /\ exitStatus' = IF Success THEN 0 ELSE 1
    /\ mainpc' = "done"
    /\ UNCHANGED codec

\* The background loops run until the process ends.
main_callbacks ==
    /\ mainpc # "done"
    /\ Callbacks
    /\ UNCHANGED <<mainVars, codec>>

MainNext ==
    \/ main_connect
    \/ main_connecting
    \/ main_connect_failed
    \/ main_test
    \/ main_test_full_session
    \/ \E choice \in {"exit_choice", "invalid_choice"} : main_no_test(choice)
    \/ main_finish
    \/ main_callbacks

MainSpec == MainInit /\ [][MainNext]_vars

TypeOK ==
    /\ client \in 0..MaxClients
    /\ connected \in BOOLEAN
    /\ pc \in {"idle", "waiting", "check", "full_sleep"}
    /\ elapsed \in 0..timeout
    /\ connected => client # 0
    /\ \A c \in Clients : loop[c] <=> net[c] \in {"sent", "up", "down"}

\* ------------------------------------------------- the codec, used freely
\* A slip in _print_motion_message(): the optional fields of a control
\* message are printed when they are not zero.
print_motion_message_by_value(motion_data) ==
    IF Malformed(motion_data)
    THEN [type |-> "Error parsing DeviceMotionMessage", details |-> <<>>]
    ELSE LET motion_msg == ParseFromString(motion_data)
         IN IF HasField(motion_msg, "config")
            THEN [type |-> "ConfigMessage",
                  details |-> motion_msg.config[1].primitives]
            ELSE IF HasField(motion_msg, "session")
            THEN [type |-> "SessionMessage",
                  details |-> motion_msg.session[1].units]
            ELSE IF HasField(motion_msg, "control")
            THEN [type |-> "ControlMessage",
                  details |-> <<[motion_msg.control[1] EXCEPT
                                   !.has_intensity = motion_msg.control[1].intensity # 0,
                                   !.has_duration = motion_msg.control[1].duration # 0]>>]
            ELSE [type |-> "Unknown or empty message", details |-> <<>>]

\* A slip in _print_motion_message(): the chain ends in the control branch
\* without a test, and has no branch for a message with no body.
print_motion_message_control_by_default(motion_data) ==
    IF Malformed(motion_data)
    THEN [type |-> "Error parsing DeviceMotionMessage", details |-> <<>>]
    ELSE LET motion_msg == ParseFromString(motion_data)
         IN IF HasField(motion_msg, "config")
            THEN [type |-> "ConfigMessage",
                  details |-> motion_msg.config[1].primitives]
            ELSE IF HasField(motion_msg, "session")
            THEN [type |-> "SessionMessage",
                  details |-> motion_msg.session[1].units]
            ELSE [type |-> "ControlMessage", details |-> motion_msg.control]

\* _print_motion_message(motion_data): what it prints.  The parse is inside
\* try/except, and after it the if/elif chain over HasField picks the type
\* and the details that are printed.
print_motion_message(motion_data) ==
    IF Malformed(motion_data)
    THEN [type |-> "Error parsing DeviceMotionMessage", details |-> <<>>]
    ELSE LET motion_msg == ParseFromString(motion_data)
         IN IF HasField(motion_msg, "config")
            THEN [type |-> "ConfigMessage",
                  details |-> motion_msg.config[1].primitives]
            ELSE IF HasField(motion_msg, "session")
            THEN [type |-> "SessionMessage",
                  details |-> motion_msg.session[1].units]
            ELSE IF HasField(motion_msg, "control")
            THEN [type |-> "ControlMessage",
                  details |-> <<motion_msg.control[1]>>]
            ELSE [type |-> "Unknown or empty message", details |-> <<>>]

\* pb_parse.py: parse the file, print which member of body is set and the
\* number of primitives of message.config.
pb_parse(serialized_data) ==
    LET message == ParseFromString(serialized_data)
    IN [body |-> WhichOneof(message),
        primitives |-> IF HasField(message, "config")
                       THEN Len(message.config[1].primitives) ELSE 0]

\* The sequences over S of lo to hi elements.
SeqsBetween(S, lo, hi) == UNION {[1..k -> S] : k \in lo..hi}

\* Input data the builders are tried on, beside the data of the source.
PrimitiveIds == {"p1", "p2"}
MovementInputs == {Movement(0, 2, 3, 10, 1), Movement(1, 0, 5, 0, 0)}
PrimitiveInputs ==
    {Primitive(id, ms) : id \in PrimitiveIds,
                         ms \in SeqsBetween(MovementInputs, 0, MaxMovements)}
ConfigInputs == SeqsBetween(PrimitiveInputs, 1, MaxPrimitives) \cup {ConfigInputData}
UnitInputs == {SessionUnit("p1", 0, 0), SessionUnit("p2", 15, 10)}
SessionInputs == SeqsBetween(UnitInputs, 1, MaxUnits) \cup {SessionInputData}

\* The commands generate_control_message() is called with.
ControlCommands == {COMMAND_RESET, COMMAND_PAUSE, COMMAND_RESUME, COMMAND_SET_INTENSITY}

\* The data model's validity: ids non-empty and unique, movements non-empty
\* with a positive duration; SET_INTENSITY with both optional fields.
ValidConfig(primitives) ==
    /\ \A i \in 1..Len(primitives) :
          /\ primitives[i].primitive_id # ""
          /\ primitives[i].movements # <<>>
          /\ \A j \in 1..Len(primitives[i].movements) :
                primitives[i].movements[j].duration > 0
    /\ \A i, k \in 1..Len(primitives) :
          i # k => primitives[i].primitive_id # primitives[k].primitive_id

ControlInputs ==
    {ControlMessage(command, hi, IF hi THEN i ELSE 0, hd, IF hd THEN d ELSE 0) :
        command \in 0..4, hi \in BOOLEAN, i \in {0, 15}, hd \in BOOLEAN, d \in {0, 100}}

ValidControl(c) == c.command = COMMAND_SET_INTENSITY => c.has_intensity /\ c.has_duration

\* The valid DeviceMotionMessage values the codec is tried on: configs,
\* sessions (the empty one too), controls and the message with no body.
MotionPayloads ==
    {SetBody("config", [primitives |-> ps]) :
        ps \in {x \in SeqsBetween(PrimitiveInputs, 0, MaxPrimitives) \cup {ConfigInputData} :
                   ValidConfig(x)}}
    \cup {SetBody("session", [units |-> us]) :
        us \in SeqsBetween(UnitInputs, 0, MaxUnits) \cup {SessionInputData}}
    \cup {SetBody("control", c) : c \in {x \in ControlInputs : ValidControl(x)}}
    \cup {DeviceMotionMessage}

\* Command data an envelope is tried on: the three kinds of message, no data
\* and a blob that is no DeviceMotionMessage.
CommandDatas ==
    {generate_config_message, generate_session_message,
     generate_control_message(COMMAND_SET_INTENSITY), <<>>,
     <<Field(9, "bytes", <<>>)>>}

\* Wires a reader is tried on: fields of unknown number (4, 9), members of
\* the oneof, a field number 0 and a member that is no sub-message.
WireFields ==
    {Field(4, "varint", 7), Field(9, "message", <<>>),
     Field(3, "message", EncodeControl(ControlMessage(COMMAND_RESET, FALSE, 0, FALSE, 0))),
     Field(1, "message", <<>>),
     Field(0, "varint", 0), Field(2, "varint", 1)}
WireInputs == SeqsBetween(WireFields, 0, MaxFields)

\* The codec has not been used yet.
Unused == codec.op = "none"

\* One use of the codec leaves the session and main() alone.
Pure(A) == A /\ UNCHANGED <<sessionVars, mainVars>>

\* generate_config_message() over its input data: build, serialize, print.
generate_config(primitives) ==
    LET data == SerializeToString(BuildConfigMessage(primitives))
    IN codec' = Codec("generate_config_message", primitives, data,
                      print_motion_message(data))

generate_session(units) ==
    LET data == SerializeToString(BuildSessionMessage(units))
    IN codec' = Codec("generate_session_message", units, data,
                      print_motion_message(data))

generate_control(command) ==
    LET data == generate_control_message(command)
    IN codec' = Codec("generate_control_message", command, data,
                      print_motion_message(data))

\* A message is serialized and the data parsed into a fresh message.
motion_roundtrip(message) ==
    LET data == SerializeToString(message)
    IN codec' = Codec("motion_roundtrip", message, data,
                      [malformed |-> Malformed(data), message |-> ParseFromString(data)])

\* examples.py dumps the config built from its input data to config.bin,
\* pb_parse.py reads the file.
dump_and_parse(primitives) ==
    LET data == SerializeToString(BuildConfigMessage(primitives))
    IN codec' = Codec("pb_parse", primitives, data, pb_parse(data))

\* create_device_command() at some time of the clock, and a reader that
\* decodes the DeviceCommand and then the DeviceMotionMessage in its data.
command_roundtrip(command_type, command_data, timestamp) ==
    LET data == create_device_command(command_type, command_data, timestamp)
        command == ParseCommand(data)
    IN codec' = Codec("command_roundtrip",
                      DeviceCommand(config.token, command_type, command_data, timestamp),
                      data,
                      [malformed |-> CommandMalformed(data),
                       command |-> command,
                       motion |-> print_motion_message(command.command_data)])

\* _print_motion_message() on data that came from elsewhere.
parse_wire(w) ==
    codec' = Codec("print_motion_message", w, w, print_motion_message(w))

CodecNext ==
    \/ Unused /\ \E primitives \in ConfigInputs : Pure(generate_config(primitives))
    \/ Unused /\ \E units \in SessionInputs : Pure(generate_session(units))
    \/ Unused /\ \E command \in ControlCommands : Pure(generate_control(command))
    \/ Unused /\ \E message \in MotionPayloads : Pure(motion_roundtrip(message))
    \/ Unused /\ \E primitives \in ConfigInputs : Pure(dump_and_parse(primitives))
    \/ Unused /\ \E command_type \in 0..3, command_data \in CommandDatas,
                    timestamp \in Timestamps :
          Pure(command_roundtrip(command_type, command_data, timestamp))
    \/ Unused /\ \E w \in WireInputs : Pure(parse_wire(w))

CodecSpec == Init /\ [][CodecNext]_vars

\* ================================================================ claims
\* A step of the caller that calls send_command() (it leaves the clients as
\* they are, which is asked first to tell it from a callback at once).
AnySend == net' = net /\ call'.op = "send_command" /\ (Tests \/ test_full_session)

\* The same steps, told by what they leave behind: only a send_command()
\* call ends with call.op = "send_command" and a new call record or a new
\* position of the caller (callbacks change neither, connect() and
\* disconnect() leave their own record).
SendStep == call'.op = "send_command" /\ (call' # call \/ pc' # pc)

\* connect() has returned and is the latest call.
ConnectReturned == pc = "idle" /\ call.op = "connect"

\* C1: whenever the session is not connected (initially, after connect()
\* returned its timeout failure, after disconnect(), after the
\* disconnect callback), send_command returns the not-connected failure and
\* makes no client.publish() invocation.
C1_NotConnectedNeverPublishes ==
    [][/\ (~connected /\ AnySend =>
              call'.result = "not_connected" /\ call'.publish = <<>>)
       /\ (disconnect => ~connected')
       /\ ((\E c \in Clients : on_disconnect(c)) => ~connected')
       /\ (connect_return /\ call'.result = "timeout" => ~connected')]_vars

\* C1 witness: a session that was connected and lost its connection refused
\* a command.
C1_Witness ==
    /\ call.op = "send_command"
    /\ call.result = "not_connected"
    /\ call.publish = <<>>
    /\ everAcked
    /\ net[client] = "down"

\* C2: connect() always returns; while it waits the clock never passes the
\* timeout; and when no CONNACK with rc = 0 was ever delivered it returns the
\* timeout failure exactly when the timeout has elapsed.
C2_ConnectAlwaysReturns ==
    /\ (pc \in {"waiting", "check"}) ~> (pc = "idle")
    /\ [](pc \in {"waiting", "check"} => elapsed <= timeout)
    /\ [][connect_return /\ ~everAcked =>
              call'.result = "timeout" /\ elapsed = timeout]_vars

\* C2 witness: connect() returned the timeout failure with no acknowledgement.
C2_Witness ==
    /\ ConnectReturned
    /\ call.result = "timeout"
    /\ ~everAcked
    /\ elapsed = timeout

\* C3 (as claimed): connect() returns success if and only if the CONNACK
\* with rc = 0 for this connect was delivered while it waited.
C3_SuccessIffAcked ==
    ConnectReturned /\ call.result \in {"ok", "timeout"} =>
        (call.result = "ok" <=> acked)

\* C4 (as claimed): once connect() has returned the timeout failure the
\* session is never connected.
C4_FailedIsTerminal ==
    ConnectReturned /\ call.result = "timeout" => ~connected

\* C5 (as claimed): when the Broker refused the connect with a non-zero
\* code, connect() returns an outcome other than the timeout failure.
C5_RejectedIsNotTimeout ==
    ConnectReturned /\ rejected # 0 /\ ~acked => call.result # "timeout"

\* C6: disconnect() can be called whenever the caller is not inside another
\* call, leaves the session not connected with the client's loop stopped,
\* and applied twice gives what it gives applied once.
C6_DisconnectIdempotent ==
    LET s1 == disconnected(Session)
        s2 == disconnected(s1)
    IN /\ s2 = s1
       /\ ~s1.connected
       /\ s1.client # 0 => ~s1.loop[s1.client] /\ s1.net[s1.client] = "closed"
       /\ pc = "idle" => ENABLED disconnect
       /\ call.op = "disconnect" /\ client # 0 => net[client] = "closed" /\ ~loop[client]

\* C6 witness: disconnect() was called twice in a row on a session that had
\* been connected.
C6_Witness ==
    /\ call.op = "disconnect"
    /\ call.n = 2
    /\ everAcked
    /\ ~connected
    /\ net[client] = "closed"

\* C7 (as claimed): when main() has returned, no client's background loop
\* is left running.
C7_ReleasedOnEveryExit ==
    mainpc = "done" => \A c \in Clients : ~loop[c]

\* C8: a send_command() call made while connected invokes client.publish()
\* exactly once, accepted or refused, and no other step invokes it.
C8_PublishedExactlyOnce ==
    [][/\ (connected /\ SendStep =>
              Len(call'.publish) = 1 /\ call'.result \in {"queued", "failed"})
       /\ (call'.publish # <<>> /\ call'.publish # call.publish =>
              connected /\ call'.op = "send_command" /\ Len(call'.publish) = 1)]_vars

\* C8 witness: the Broker refused a publish and it was not tried again.
C8_Witness ==
    /\ call.op = "send_command"
    /\ call.result = "failed"
    /\ Len(call.publish) = 1
    /\ call.publish[1].rc = "MQTT_ERR_QUEUE_SIZE"

\* C9: a send_command() call that reached the Broker reports success if and
\* only if the Broker queued the message, in every state until the next
\* call, whatever callbacks arrive.
C9_SuccessIffQueued ==
    call.op = "send_command" /\ call.publish # <<>> =>
        /\ call.result \in {"queued", "failed"}
        /\ call.result = "queued" <=> call.publish[1].rc = "MQTT_ERR_SUCCESS"

\* C9 witness: a queued command whose connection was lost afterwards.
C9_Witness ==
    /\ call.op = "send_command"
    /\ call.result = "queued"
    /\ call.publish[1].rc = "MQTT_ERR_SUCCESS"
    /\ ~connected

\* C10: every publish goes to "device/command/" followed by the device
\* token of the configuration, whatever the command, payload and timestamp.
C10_RoutingKey ==
    \A i \in DOMAIN call.publish :
        call.publish[i].topic = "device/command/" \o config.token

\* C10 witness: a session command published for the second device token.
C10_Witness ==
    /\ call.publish # <<>>
    /\ config.token = "cup42"
    /\ call.publish[1].topic = "device/command/cup42"
    /\ ParseCommand(call.publish[1].payload).command_type = COMMAND_START

\* C11 (as claimed): in main()'s run, where connect() is called once, a
\* session whose connect() has returned success and that has lost the
\* connection since (the disconnect callback fired and cleared the flag) is
\* never connected again, so no later send_command reaches the Broker.
C11_NoAutoReconnect ==
    [][/\ mainpc \in {"test", "exit_choice", "invalid_choice"}
       /\ everAcked
       /\ ~connected
       => ~connected']_vars

\* The type _print_motion_message() prints for each member of the oneof.
TypeName(name) ==
    CASE name = "config" -> "ConfigMessage"
      [] name = "session" -> "SessionMessage"
      [] name = "control" -> "ControlMessage"
      [] name = "none" -> "Unknown or empty message"

\* C12: a payload built as config, session or control and serialized is
\* reported by the reader as exactly that variant (a control payload never
\* as config, session or none), for the builders' data and for every valid
\* message; and a parsed message has at most one member of the oneof set.
C12_TagPreserved ==
    /\ codec.op = "generate_config_message" => codec.output.type = "ConfigMessage"
    /\ codec.op = "generate_session_message" => codec.output.type = "SessionMessage"
    /\ codec.op = "generate_control_message" => codec.output.type = "ControlMessage"
    /\ codec.op = "motion_roundtrip" =>
          /\ WhichOneof(codec.output.message) = WhichOneof(codec.input)
          /\ print_motion_message(codec.wire).type = TypeName(WhichOneof(codec.input))
          /\ Cardinality({name \in {"config", "session", "control"} :
                             HasField(codec.output.message, name)}) <= 1

\* C12 witness: a control message built for RESET, which has no field but
\* the command, was reported as a control message.
C12_Witness ==
    /\ codec.op = "generate_control_message"
    /\ codec.input = COMMAND_RESET
    /\ codec.output.type = "ControlMessage"
    /\ codec.output.details[1].command = COMMAND_RESET

\* C13: a valid message that is serialized and parsed comes back with the
\* same member set, the same field values and the same order of primitives,
\* movements and units; the session built from the input data is printed
\* with the units of the input in their order, and the config dumped to a
\* file is read back as a config with as many primitives as the input.
C13_MotionRoundTrip ==
    /\ codec.op = "motion_roundtrip" =>
          ~codec.output.malformed /\ codec.output.message = codec.input
    /\ codec.op = "generate_session_message" => codec.output.details = codec.input
    /\ codec.op = "pb_parse" =>
          codec.output.body = "config" /\ codec.output.primitives = Len(codec.input)

\* C13 witness: a config of two primitives with two different movements
\* each came back unchanged.
C13_Witness ==
    /\ codec.op = "motion_roundtrip"
    /\ HasField(codec.input, "config")
    /\ Len(codec.input.config[1].primitives) = 2
    /\ Len(codec.input.config[1].primitives[1].movements) = 2
    /\ codec.input.config[1].primitives[1].movements[1] #
          codec.input.config[1].primitives[1].movements[2]
    /\ codec.output.message = codec.input

\* C14: the DeviceCommand that create_device_command() serializes decodes to
\* the token of the config, the command type, the command data and the
\* timestamp it was given; the data comes back as the same bytes for every
\* command type, whether or not it is a DeviceMotionMessage.
C14_CommandRoundTrip ==
    codec.op = "command_roundtrip" =>
        /\ ~codec.output.malformed
        /\ codec.output.command = codec.input
        /\ codec.output.command.device_token = config.token
        /\ codec.output.command.command_data = codec.input.command_data

\* C14 witness: a START command carrying a blob that is no DeviceMotionMessage.
C14_Witness ==
    /\ codec.op = "command_roundtrip"
    /\ codec.input.command_type = COMMAND_START
    /\ codec.input.command_data = <<Field(9, "bytes", <<>>)>>
    /\ codec.output.command.command_data = <<Field(9, "bytes", <<>>)>>
    /\ codec.output.command.timestamp = 2000

\* The nested scenario: the config of generate_config_message() in a TASK
\* command for device "hw2020515".
NestedScenario ==
    /\ codec.op = "command_roundtrip"
    /\ codec.input.device_token = "hw2020515"
    /\ codec.input.command_type = COMMAND_TASK
    /\ codec.input.command_data = generate_config_message

\* C15: in the nested scenario the reader recovers exactly 2 primitives,
\* primitive_1 and primitive_2, of 8 movements each, every movement with the
\* direction, distance, duration, rotation and rotation_direction of the
\* input data, in the input's order.
C15_NestedScenario ==
    NestedScenario =>
        /\ codec.output.command.device_token = "hw2020515"
        /\ codec.output.command.command_type = COMMAND_TASK
        /\ codec.output.motion.type = "ConfigMessage"
        /\ Len(codec.output.motion.details) = 2
        /\ \A i \in 1..2 :
              /\ Len(codec.output.motion.details[i].movements) = 8
              /\ codec.output.motion.details[i].primitive_id = ConfigInputData[i].primitive_id
              /\ \A j \in 1..8 :
                    codec.output.motion.details[i].movements[j] =
                        ConfigInputData[i].movements[j]

\* C15 witness: the scenario was run; the second movement of primitive_2
\* came back with distance 0.4 and rotation_direction 1.
C15_Witness ==
    /\ NestedScenario
    /\ codec.output.motion.details[2].primitive_id = "primitive_2"
    /\ codec.output.motion.details[2].movements[2].distance = 4
    /\ codec.output.motion.details[2].movements[2].rotation_direction = 1

\* C16: a control message built by generate_control_message() has intensity
\* and duration set exactly when the builder assigned them (SET_INTENSITY),
\* and for every control message the reader reports each of the two fields
\* present exactly when it was set, with its value, whatever the value is.
C16_PresenceTracked ==
    /\ codec.op = "generate_control_message" =>
          /\ codec.output.details[1].has_intensity <=> codec.input = COMMAND_SET_INTENSITY
          /\ codec.output.details[1].has_duration <=> codec.input = COMMAND_SET_INTENSITY
    /\ codec.op = "motion_roundtrip" /\ HasField(codec.input, "control") =>
          LET printed == print_motion_message(codec.wire).details[1]
              given == codec.input.control[1]
          IN /\ printed.has_intensity = given.has_intensity
             /\ printed.has_duration = given.has_duration
             /\ printed.intensity = given.intensity
             /\ printed.duration = given.duration

\* C16 witness: intensity set to zero and duration not set came back as
\* intensity present and duration absent.
C16_Witness ==
    /\ codec.op = "motion_roundtrip"
    /\ HasField(codec.input, "control")
    /\ codec.input.control[1].has_intensity
    /\ codec.input.control[1].intensity = 0
    /\ ~codec.input.control[1].has_duration
    /\ codec.output.message.control[1].has_intensity
    /\ ~codec.output.message.control[1].has_duration

DuplicateId(primitives) ==
    \E i, k \in 1..Len(primitives) :
        i # k /\ primitives[i].primitive_id = primitives[k].primitive_id

\* A primitive of the input has no movements.
EmptyMovements(primitives) ==
    \E i \in 1..Len(primitives) : primitives[i].movements = <<>>

C19_NoEmptyToken ==
    \A i \in DOMAIN call.publish :
        ParseCommand(call.publish[i].payload).device_token # ""

\* C20: data whose fields all have numbers that are no member of the oneof
\* (and data with no field at all) is parsed without an error and reported
\* as "Unknown or empty message", never as config, session or control.
C20_UnknownTagIsNone ==
    /\ codec.op = "print_motion_message"
    /\ \A i \in 1..Len(codec.input) : codec.input[i].f > 3
    => /\ ~Malformed(codec.input)
       /\ WhichOneof(ParseFromString(codec.input)) = "none"
       /\ codec.output.type = "Unknown or empty message"

\* C20 witness: two fields of unknown numbers, one of them a sub-message.
C20_Witness ==
    /\ codec.op = "print_motion_message"
    /\ Len(codec.input) = 2
    /\ codec.input[1].f = 9
    /\ codec.input[2].f = 4
    /\ codec.output.type = "Unknown or empty message"

\* The member of body that the command data of a publish carries, as the
\* device decodes it.
PayloadBody(p) == WhichOneof(ParseFromString(ParseCommand(p.payload).command_data))

\* The command type of the envelope of a publish.
PayloadType(p) == ParseCommand(p.payload).command_type

\* C21: in test_full_workflow the config is handed to the Broker first; the
\* session is sent only from a workflow whose config was queued (a failed
\* config send returns at once, publishing no session), the session follows
\* the config on the same topic, and the workflow's result is success only if
\* the session was queued too.
C21_WorkflowOrder ==
    /\ [](pc = "full_sleep" =>
             /\ call.op = "send_command"
             /\ call.result = "queued"
             /\ Len(call.publish) = 1
             /\ call.publish[1].rc = "MQTT_ERR_SUCCESS"
             /\ PayloadBody(call.publish[1]) = "config")
    /\ [][/\ (pc = "idle" /\ pc' = "idle" /\ call'.result # "queued" /\ test_full_workflow =>
                 \A i \in DOMAIN call'.publish : PayloadBody(call'.publish[i]) = "config")
           /\ (pc = "full_sleep" /\ pc' # pc =>
                 /\ test_full_session
                 /\ \A i \in DOMAIN call'.publish : PayloadBody(call'.publish[i]) = "session"
                 /\ call'.result = "queued" =>
                       /\ call.result = "queued"
                       /\ Len(call'.publish) = 1
                       /\ call'.publish[1].rc = "MQTT_ERR_SUCCESS")]_vars

\* C21 witness: the config of the workflow was queued and the connection was
\* lost during the sleep, before the session is sent.
C21_Witness ==
    /\ pc = "full_sleep"
    /\ call.result = "queued"
    /\ PayloadBody(call.publish[1]) = "config"
    /\ ~connected

\* C22: every publish whose command data decodes to a config or a control
\* message carries command_type TASK, every publish whose command data
\* decodes to a session carries START, and no publish carries any other
\* command_type (UNSPECIFIED, STOP).
C22_TypePairing ==
    \A i \in DOMAIN call.publish :
        /\ PayloadBody(call.publish[i]) \in {"config", "control"} =>
               PayloadType(call.publish[i]) = COMMAND_TASK
        /\ PayloadBody(call.publish[i]) = "session" =>
               PayloadType(call.publish[i]) = COMMAND_START
        /\ PayloadBody(call.publish[i]) \in {"config", "session", "control"}
        /\ PayloadType(call.publish[i]) \in {COMMAND_START, COMMAND_TASK}

\* C22 witness: a session was handed to the Broker as START (and refused by
\* it).
C22_Witness ==
    /\ call.publish # <<>>
    /\ PayloadBody(call.publish[1]) = "session"
    /\ PayloadType(call.publish[1]) = COMMAND_START
    /\ call.publish[1].rc = "MQTT_ERR_QUEUE_SIZE"

\* C23 (as claimed): only the client the session holds has a running
\* background loop, and a connect() that returned success saw the
\* acknowledgement of the client it created.
C23_OneLiveClient ==
    /\ \A c \in Clients : loop[c] => c = client
    /\ ConnectReturned /\ call.result = "ok" /\ client > 1 => acked

\* C24: for every publish, the device_token decoded from its envelope is the
\* token that follows "device/command/" in the topic of that publish.
C24_TokenAgrees ==
    \A i \in DOMAIN call.publish :
        /\ ~CommandMalformed(call.publish[i].payload)
        /\ call.publish[i].topic =
               "device/command/" \o ParseCommand(call.publish[i].payload).device_token

\* C24 witness: a control command for the second device, its token in the
\* envelope and in the topic.
C24_Witness ==
    /\ call.publish # <<>>
    /\ ParseCommand(call.publish[1].payload).device_token = "cup42"
    /\ call.publish[1].topic = "device/command/cup42"
    /\ PayloadBody(call.publish[1]) = "control"

\* The URL starts with none of tcp://, mqtt://, mqtts://.
NoKnownScheme(broker_url) ==
    \A prefix \in {<<"t","c","p",":","/","/">>,
                    <<"m","q","t","t",":","/","/">>,
                    <<"m","q","t","t","s",":","/","/">>} :
        ~startswith(broker_url, prefix)

\* C25: with a broker URL of no supported scheme, every connect() returns
\* the unsupported-URL failure at once, and the session stays as __init__
\* left it: no client is created, no client has a connection or a running
\* loop, the session is not connected and nothing is published.
C25_UnsupportedUrl ==
    NoKnownScheme(config.broker_url) =>
        /\ client = 0
        /\ ~connected
        /\ pc = "idle"
        /\ \A c \in Clients : net[c] = "none" /\ ~loop[c]
        /\ call.publish = <<>>
        /\ call.op = "connect" => call.result = "unsupported"

\* C25 witness: connect() was called with the http:// URL and returned the
\* unsupported-URL failure.
C25_Witness ==
    /\ config.broker_url = HttpUrl
    /\ call.op = "connect"
    /\ call.result = "unsupported"
    /\ client = 0

\* C26 (as claimed): when connect() has returned because client.connect()
\* raised, the session is not connected and the loop of the client it
\* created is not running.
C26_RaiseLeavesDisconnected ==
    ConnectReturned /\ call.result = "error" =>
        /\ ~connected
        /\ client # 0 /\ ~loop[client]

\* C27: main() returns 0 or 1.  It returns 0 if and only if connect()
\* returned success and then either the user chose Exit or the scenario that
\* ran ended with a send the Broker queued; and when connect() returned a
\* failure, main() returns 1 straight from the connect call, no scenario
\* having run and nothing having been published.
C27_ExitStatus ==
    [][mainpc # "done" /\ mainpc' = "done" =>
          /\ exitStatus = -1
          /\ exitStatus' \in {0, 1}
          /\ exitStatus' = 0 <=>
                /\ mainpc \in {"test", "exit_choice", "invalid_choice"}
                /\ \/ mainpc = "exit_choice"
                   \/ /\ mainpc = "test"
                      /\ call.op = "send_command"
                      /\ call.publish # <<>>
                      /\ call.publish[1].rc = "MQTT_ERR_SUCCESS"
          /\ mainpc \in {"test", "exit_choice", "invalid_choice"} => everAcked
          /\ mainpc = "connect" =>
                /\ call.op = "connect"
                /\ call.result \in {"unsupported", "error", "timeout"}
                /\ call.publish = <<>>
                /\ exitStatus' = 1]_vars

\* C27 witness: main() returned 0 after an acknowledged connect, the session
\* released by the finally block.
C27_Witness ==
    /\ mainpc = "done"
    /\ exitStatus = 0
    /\ everAcked
    /\ call.op = "disconnect"
    /\ net[client] = "closed"

====
